---- MODULE Spec2Model ----
(***************************************************************************)
(* Model of pdf_chapter_splitter.py: the filename sanitizer, the chapter   *)
(* range computation of get_chapter_ranges, the writer write_chapters and  *)
(* the on_split / manual-selection handlers of PDFSplitterApp.             *)
(*                                                                         *)
(* Strings are sequences of one-character strings, so that sanitizing and  *)
(* filename formatting are computed character by character.  A written     *)
(* PDF is the sequence of the source page indices copied into it.  The     *)
(* output directory is a function from filenames to file contents.         *)
(***************************************************************************)
EXTENDS Integers, Sequences, FiniteSets, TLC

VARIABLES
    sanIn, sanOut, sanDone,          \* sanitize_filename: argument, result, called
    rawIn, totalIn, resOut, resDone, \* range computation: raw, total, ranges, called
    doc,                             \* the input PDF: [total, outline]
    fs,                              \* the output directory: filename -> pages
    pc,                              \* "idle" or "dialog" (manual selection window open)
    dlgRanges, checks, toggle_flag,  \* the manual dialog: its ranges, checkboxes, toggle state
    message,                         \* the last messagebox shown
    last, prev,                      \* the last two write_chapters calls (history)
    calls                            \* number of write_chapters calls so far

vars == <<sanIn, sanOut, sanDone, rawIn, totalIn, resOut, resDone,
          doc, fs, pc, dlgRanges, checks, toggle_flag, message, last, prev, calls>>

sanVars == <<sanIn, sanOut, sanDone>>
resVars == <<rawIn, totalIn, resOut, resDone>>
appVars == <<doc, fs, pc, dlgRanges, checks, toggle_flag, message, last, prev, calls>>

----------------------------------------------------------------------------
(* Bounds *)

\* SpecSan: the longest title.
MaxLen == 3
\* SpecResolve: the most entries, and the largest page count.
MaxEntries == 3
MaxTotal == 3
\* SpecWrite: the largest page count and the longest outline of a document.
MaxPages == 2
MaxOutline == 2
\* Spec: the same for the document the application is given, and the most
\* write_chapters calls the handlers make in one behaviour.
MaxAppPages == 1
MaxAppOutline == 1
MaxCalls == 1

SeqsUpTo(S, n) == UNION {[1..k -> S] : k \in 0..n}

----------------------------------------------------------------------------
(* sanitize_filename *)

ReservedChars == {"\\", "/", "*", "?", ":", "\"", "<", ">", "|"}

Whitespace == {" ", "\t", "\n"}

re_sub(name) ==
    [i \in 1..Len(name) |-> IF name[i] \in ReservedChars THEN "_" ELSE name[i]]

RECURSIVE lstrip(_)
lstrip(s) ==
    IF s = <<>> THEN s
    ELSE IF Head(s) \in Whitespace THEN lstrip(Tail(s)) ELSE s

RECURSIVE rstrip(_)
rstrip(s) ==
    IF s = <<>> THEN s
    ELSE IF s[Len(s)] \in Whitespace THEN rstrip(SubSeq(s, 1, Len(s) - 1)) ELSE s

strip(s) == rstrip(lstrip(s))

sanitize_filename_nostrip(name) == re_sub(name)

sanitize_filename(name) == strip(re_sub(name))

----------------------------------------------------------------------------
(* get_chapter_ranges *)

\* Marks an outline item whose get_destination_page_number call raises.
Unresolvable == -1

ExtractRawKeepUntitled(outline) ==
    LET kept == SelectSeq(outline, LAMBDA item : item.page # Unresolvable)
    IN  [i \in 1..Len(kept) |-> <<kept[i].title, kept[i].page>>]

\* Lines 33-42: the (title, page) pairs of the items that have a title and
\* whose page resolves; the other items are skipped.
ExtractRaw(outline) ==
    LET kept == SelectSeq(outline,
                          LAMBDA item : item.title # <<>> /\ item.page # Unresolvable)
    IN  [i \in 1..Len(kept) |-> <<kept[i].title, kept[i].page>>]

RECURSIVE InsertByPage(_, _)
InsertByPage(e, s) ==
    IF s = <<>> THEN <<e>>
    ELSE IF Head(s)[2] <= e[2] THEN <<Head(s)>> \o InsertByPage(e, Tail(s))
    ELSE <<e>> \o s

nosort(raw) == raw

\* raw.sort(key=lambda x: x[1]): ascending by page, stable on ties.
RECURSIVE sort(_)
sort(raw) ==
    IF raw = <<>> THEN <<>>
    ELSE InsertByPage(raw[Len(raw)], sort(SubSeq(raw, 1, Len(raw) - 1)))

RangeEndOffByOne(raw, i, total) ==
    IF i + 1 <= Len(raw) THEN raw[i + 1][2] ELSE total - 1

RangeEnd(raw, i, total) ==
    IF i + 1 <= Len(raw) THEN raw[i + 1][2] - 1 ELSE total - 1

\* Lines 45-51: sort, then one (title, start, end) per entry.
ResolveRanges(raw, total) ==
    LET sorted == sort(raw)
    IN  [i \in 1..Len(sorted) |->
            <<sorted[i][1], sorted[i][2], RangeEnd(sorted, i, total)>>]

get_chapter_ranges(d) == ResolveRanges(ExtractRaw(d.outline), d.total)

----------------------------------------------------------------------------
(* write_chapters *)

EffectiveSelectionFalsy(ranges, given, idx) ==
    IF ~given \/ idx = <<>> THEN [i \in 1..Len(ranges) |-> i - 1] ELSE idx

\* Lines 58-61: selected_idx None -> list(range(len(ranges))).  Indices are 0-based.
EffectiveSelection(ranges, given, idx) ==
    IF ~given THEN [i \in 1..Len(ranges) |-> i - 1] ELSE idx

Digit(d) == <<"0", "1", "2", "3", "4", "5", "6", "7", "8", "9">>[d + 1]

RECURSIVE Decimal(_)
Decimal(n) ==
    IF n < 10 THEN <<Digit(n)>> ELSE Decimal(n \div 10) \o <<Digit(n % 10)>>

\* f"{num:02d}": decimal digits, zero-padded to width 2.
Fmt02d(num) ==
    LET d == Decimal(num) IN IF Len(d) < 2 THEN <<"0">> \o d ELSE d

FileNameNoNumber(num, title) ==
    sanitize_filename(title) \o <<".", "p", "d", "f">>

\* Line 67: f"{num:02d}_{sanitize_filename(title)}.pdf"
FileName(num, title) ==
    Fmt02d(num) \o <<"_">> \o sanitize_filename(title) \o <<".", "p", "d", "f">>

NeverRaises(start, end, total) == FALSE

\* Line 66: reader.pages[p] raises IndexError for p >= len(reader.pages).
\* start is a page number >= 0, so p is never negative.
PageIndexError(start, end, total) ==
    \E p \in start..end : p >= total

CopyPagesExclusive(start, end) ==
    IF end - 1 < start THEN <<>> ELSE [i \in 1..(end - start) |-> start + i - 1]

\* Line 66: for p in range(start, end+1): writer.add_page(reader.pages[p])
CopyPages(start, end) ==
    IF end < start THEN <<>> ELSE [i \in 1..(end - start + 1) |-> start + i - 1]

OpenAppend(dir, fname, content) ==
    [n \in DOMAIN dir \cup {fname} |->
        IF n = fname THEN (IF n \in DOMAIN dir THEN dir[n] ELSE <<>>) \o content
        ELSE dir[n]]

\* Lines 68-69: open(output_dir / fname, 'wb') creates or truncates the file.
OpenWrite(dir, fname, content) ==
    [n \in DOMAIN dir \cup {fname} |-> IF n = fname THEN content ELSE dir[n]]

\* Lines 62-71: the loop from position num on.  The result records how the
\* call ended ("returned" or "IndexError"), the value of count at that point,
\* the directory, and the files written in order.
RECURSIVE WriteLoop(_, _, _, _, _, _, _)
WriteLoop(ranges, total, selected, num, count, dir, log) ==
    IF num > Len(selected)
    THEN [outcome |-> "returned", count |-> count, fs |-> dir, log |-> log]
    ELSE LET r     == ranges[selected[num] + 1]
             title == r[1]
             start == r[2]
             end   == r[3]
         IN  IF PageIndexError(start, end, total)
             THEN [outcome |-> "IndexError", count |-> count, fs |-> dir, log |-> log]
             ELSE LET fname == FileName(num, title)
                      pages == CopyPages(start, end)
                  IN  WriteLoop(ranges, total, selected, num + 1, count + 1,
                                OpenWrite(dir, fname, pages),
                                Append(log, [fname |-> fname, title |-> title,
                                             pages |-> pages]))

write_chapters(ranges, total, dir, given, idx) ==
    WriteLoop(ranges, total, EffectiveSelection(ranges, given, idx), 1, 0, dir, <<>>)

----------------------------------------------------------------------------
(* PDFSplitterApp *)

ReverseTitlesOnly(s) ==
    [i \in 1..Len(s) |-> <<s[Len(s) + 1 - i][1], s[i][2], s[i][3]>>]

\* ranges.reverse() / list(reversed(ranges))
Reverse(s) == [i \in 1..Len(s) |-> s[Len(s) + 1 - i]]

Ordered(order, ranges) == IF order = "Descending" THEN Reverse(ranges) ELSE ranges

NoMessage == <<"none">>

NoCall ==
    [op |-> "none", order |-> "none", ranges |-> <<>>, given |-> FALSE, idx |-> <<>>,
     before |-> <<>>, outcome |-> "none", count |-> 0, log |-> <<>>]

\* One write_chapters(ranges, reader, out, selected_idx) call on the output
\* directory, with the history of the call kept in last.
Call(op, order, ranges, given, idx, res) ==
    /\ fs' = res.fs
    /\ prev' = last
    /\ last' = [op |-> op, order |-> order, ranges |-> ranges, given |-> given,
                idx |-> idx, before |-> fs, outcome |-> res.outcome,
                count |-> res.count, log |-> res.log]
    /\ calls' = calls + 1

\* on_split, input path missing or not a .pdf: showerror and return.
OnSplitInvalid ==
    /\ message' = <<"showerror", "Error", "Invalid PDF">>
    /\ UNCHANGED <<doc, fs, pc, dlgRanges, checks, toggle_flag, last, prev, calls>>
    /\ UNCHANGED <<sanVars, resVars>>

\* on_split, manual selection off: write every chapter and report the count.
\* An exception of write_chapters leaves the handler before showinfo.
OnSplitAuto(order) ==
    /\ calls < MaxCalls
    /\ LET ranges == Ordered(order, get_chapter_ranges(doc))
           res    == write_chapters(ranges, doc.total, fs, FALSE, <<>>)
       IN  /\ Call("on_split", order, ranges, FALSE, <<>>, res)
           /\ message' = IF res.outcome = "returned"
                         THEN <<"showinfo", "Done", res.count>>
                         ELSE NoMessage
    /\ UNCHANGED <<doc, pc, dlgRanges, checks, toggle_flag>>
    /\ UNCHANGED <<sanVars, resVars>>

\* on_split, manual selection on: open the dialog, every checkbox checked.
\* The model follows one selection dialog at a time.
OnSplitManual(order) ==
    /\ pc = "idle"
    /\ LET ranges == Ordered(order, get_chapter_ranges(doc))
       IN  /\ dlgRanges' = ranges
           /\ checks' = [i \in 1..Len(ranges) |-> TRUE]
    /\ toggle_flag' = TRUE
    /\ pc' = "dialog"
    /\ message' = NoMessage
    /\ UNCHANGED <<doc, fs, last, prev, calls>>
    /\ UNCHANGED <<sanVars, resVars>>

\* toggle(): set every checkbox to toggle_flag, then flip the flag.
Toggle ==
    /\ pc = "dialog"
    /\ checks' = [i \in 1..Len(checks) |-> toggle_flag]
    /\ toggle_flag' = ~toggle_flag
    /\ UNCHANGED <<doc, fs, pc, dlgRanges, message, last, prev, calls>>
    /\ UNCHANGED <<sanVars, resVars>>

\* The user clicks checkbox i.
Click(i) ==
    /\ pc = "dialog"
    /\ checks' = [checks EXCEPT ![i] = ~checks[i]]
    /\ UNCHANGED <<doc, fs, pc, dlgRanges, toggle_flag, message, last, prev, calls>>
    /\ UNCHANGED <<sanVars, resVars>>

RECURSIVE CheckedFrom(_, _)
CheckedFrom(cs, i) ==
    IF i > Len(cs) THEN <<>>
    ELSE (IF cs[i] THEN <<i - 1>> ELSE <<>>) \o CheckedFrom(cs, i + 1)

\* [i for i, var in enumerate(checks) if var.get()]
Checked(cs) == CheckedFrom(cs, 1)

\* confirm(): write the checked chapters, report, close the dialog.  An
\* exception of write_chapters leaves confirm before showinfo and destroy.
Confirm ==
    /\ pc = "dialog"
    /\ calls < MaxCalls
    /\ LET selected == Checked(checks)
           res      == write_chapters(dlgRanges, doc.total, fs, TRUE, selected)
       IN  /\ Call("confirm", "none", dlgRanges, TRUE, selected, res)
           /\ IF res.outcome = "returned"
              THEN /\ message' = <<"showinfo", "Done", res.count>>
                   /\ pc' = "idle"
                   /\ dlgRanges' = <<>>
                   /\ checks' = <<>>
                   /\ toggle_flag' = TRUE
              ELSE /\ message' = NoMessage
                   /\ UNCHANGED <<pc, dlgRanges, checks, toggle_flag>>
    /\ UNCHANGED doc
    /\ UNCHANGED <<sanVars, resVars>>

\* The selections a caller of write_chapters may pass: unique indices into
\* ranges, in any order.
Selections(n) ==
    {s \in SeqsUpTo(0..(n - 1), n) : \A i, j \in 1..Len(s) : i # j => s[i] # s[j]}

\* write_chapters called on the resolved ranges, in either order, with
\* selected_idx None or an explicit selection, on a fresh output directory.
WriteFirst(order, given, idx) ==
    /\ calls = 0
    /\ LET ranges == Ordered(order, get_chapter_ranges(doc))
           res    == write_chapters(ranges, doc.total, fs, given, idx)
       IN  Call("write_chapters", order, ranges, given, idx, res)
    /\ UNCHANGED <<doc, pc, dlgRanges, checks, toggle_flag, message>>
    /\ UNCHANGED <<sanVars, resVars>>

\* write_chapters called a second time with the arguments of the first call.
WriteAgain ==
    /\ calls = 1
    /\ LET res == write_chapters(last.ranges, doc.total, fs, last.given, last.idx)
       IN  Call("write_chapters", last.order, last.ranges, last.given, last.idx, res)
    /\ UNCHANGED <<doc, pc, dlgRanges, checks, toggle_flag, message>>
    /\ UNCHANGED <<sanVars, resVars>>

\* write_chapters called a second time on the reversed ranges (the caller's
\* other output order), all chapters selected both times.
WriteReversed ==
    /\ calls = 1
    /\ ~last.given
    /\ LET order  == IF last.order = "Ascending" THEN "Descending" ELSE "Ascending"
           ranges == Ordered(order, get_chapter_ranges(doc))
           res    == write_chapters(ranges, doc.total, fs, FALSE, <<>>)
       IN  Call("write_chapters", order, ranges, FALSE, <<>>, res)
    /\ UNCHANGED <<doc, pc, dlgRanges, checks, toggle_flag, message>>
    /\ UNCHANGED <<sanVars, resVars>>

----------------------------------------------------------------------------
(* Inputs and specifications *)

ExampleTitle == <<"C", "h", ":", "1", "/", "I", "n", "t", "r", "o", "?">>

SanAlphabet == ReservedChars \cup Whitespace \cup {"a", "_"}

SanInputs == (SeqsUpTo(SanAlphabet, MaxLen) \ {<<>>}) \cup {ExampleTitle}

ResTitles == {<<"a">>, <<"b">>}

AppTitles == {<<"a">>, <<"a", ":">>, <<" ", "a", "?">>}

\* Outline items of a document of T pages: titled items pointing at a page
\* (possibly past the last one), an item without a title, and an item whose
\* destination does not resolve.
Nodes(T) ==
    [title : AppTitles, page : 0..(T + 1)]
        \cup {[title |-> <<>>, page |-> 0], [title |-> <<"a">>, page |-> Unresolvable]}

\* The documents of at most maxPages pages and maxOutline outline items.
DocsUpTo(maxOutline, maxPages) ==
    UNION {{[total |-> T, outline |-> o] : o \in SeqsUpTo(Nodes(T), maxOutline)}
           : T \in 1..maxPages}

Docs == DocsUpTo(MaxOutline, MaxPages)

AppDocs == DocsUpTo(MaxAppOutline, MaxAppPages)

SanIdle == sanIn = <<>> /\ sanOut = <<>> /\ sanDone = FALSE

ResIdle == rawIn = <<>> /\ totalIn = 1 /\ resOut = <<>> /\ resDone = FALSE

AppIdle ==
    /\ fs = <<>>
    /\ pc = "idle"
    /\ dlgRanges = <<>>
    /\ checks = <<>>
    /\ toggle_flag = TRUE
    /\ message = NoMessage
    /\ last = NoCall
    /\ prev = NoCall
    /\ calls = 0

Init ==
    /\ doc \in AppDocs
    /\ AppIdle
    /\ SanIdle
    /\ ResIdle

Next ==
    \/ OnSplitInvalid
    \/ \E order \in {"Ascending", "Descending"} : OnSplitAuto(order)
    \/ \E order \in {"Ascending", "Descending"} : OnSplitManual(order)
    \/ Toggle
    \/ \E i \in 1..Len(checks) : Click(i)
    \/ Confirm

Spec == Init /\ [][Next]_vars

WriteInit ==
    /\ doc \in Docs
    /\ AppIdle
    /\ SanIdle
    /\ ResIdle

WriteNext ==
    \/ \E order \in {"Ascending", "Descending"} : WriteFirst(order, FALSE, <<>>)
    \/ \E order \in {"Ascending", "Descending"} :
           \E idx \in Selections(Len(get_chapter_ranges(doc))) : WriteFirst(order, TRUE, idx)
    \/ WriteAgain
    \/ WriteReversed

SpecWrite == WriteInit /\ [][WriteNext]_vars

\* sanitize_filename applied to a title.
Sanitize ==
    /\ ~sanDone
    /\ sanOut' = sanitize_filename(sanIn)
    /\ sanDone' = TRUE
    /\ UNCHANGED <<sanIn, resVars, appVars>>

SanInit ==
    /\ sanIn \in SanInputs
    /\ sanOut = <<>>
    /\ sanDone = FALSE
    /\ ResIdle
    /\ doc = [total |-> 1, outline |-> <<>>]
    /\ AppIdle

SanNext == Sanitize

SpecSan == SanInit /\ [][SanNext]_vars

\* Lines 45-51 of get_chapter_ranges applied to raw and the page count.
Resolve ==
    /\ ~resDone
    /\ resOut' = ResolveRanges(rawIn, totalIn)
    /\ resDone' = TRUE
    /\ UNCHANGED <<rawIn, totalIn, sanVars, appVars>>

ResInit ==
    /\ totalIn \in 1..MaxTotal
    /\ rawIn \in SeqsUpTo(ResTitles \X (0..(totalIn + 1)), MaxEntries)
    /\ resOut = <<>>
    /\ resDone = FALSE
    /\ SanIdle
    /\ doc = [total |-> 1, outline |-> <<>>]
    /\ AppIdle

ResNext == Resolve

SpecResolve == ResInit /\ [][ResNext]_vars

----------------------------------------------------------------------------
(* Properties of sanitize_filename (SpecSan) *)

\* C9: for every non-empty title, the sanitized title contains no reserved
\* character and has no leading or trailing whitespace; "Ch:1/Intro?"
\* becomes "Ch_1_Intro_".
C9_SanitizedIsSafe ==
    (sanDone /\ sanIn # <<>>) =>
        /\ \A i \in 1..Len(sanOut) : sanOut[i] \notin ReservedChars
        /\ sanOut # <<>> => (sanOut[1] \notin Whitespace /\ sanOut[Len(sanOut)] \notin Whitespace)
        /\ sanIn = ExampleTitle =>
               sanOut = <<"C", "h", "_", "1", "_", "I", "n", "t", "r", "o", "_">>

C9_Witness ==
    /\ sanDone
    /\ sanIn = <<" ", ":", "\t">>
    /\ sanOut = <<"_">>

----------------------------------------------------------------------------
(* Properties of the range computation (SpecResolve) *)

PagesAscending(raw) == \A i \in 1..(Len(raw) - 1) : raw[i][2] <= raw[i + 1][2]

PagesStrictlyAscending(raw) == \A i \in 1..(Len(raw) - 1) : raw[i][2] < raw[i + 1][2]

StartsStrictlyIncreasing(rs) == \A i \in 1..(Len(rs) - 1) : rs[i][2] < rs[i + 1][2]

\* The inclusive intervals of rs are non-empty, lie in lo..hi, and every page
\* of lo..hi is in exactly one of them.
Partitions(rs, lo, hi) ==
    /\ \A i \in 1..Len(rs) : lo <= rs[i][2] /\ rs[i][2] <= rs[i][3] /\ rs[i][3] <= hi
    /\ \A p \in lo..hi : Cardinality({i \in 1..Len(rs) : rs[i][2] <= p /\ p <= rs[i][3]}) = 1

\* C1 as stated, for k >= 1 entries with pages inside the document: sorted
\* entries give k ranges with strictly increasing starts that partition
\* [0, T-1], the last one ending at T-1.
C1_Original ==
    (/\ resDone
     /\ rawIn # <<>>
     /\ PagesAscending(rawIn)
     /\ \A i \in 1..Len(rawIn) : rawIn[i][2] < totalIn) =>
        /\ Len(resOut) = Len(rawIn)
        /\ StartsStrictlyIncreasing(resOut)
        /\ Partitions(resOut, 0, totalIn - 1)
        /\ resOut[Len(resOut)][3] = totalIn - 1

\* C1, amended: sorted entries give k ranges, range i keeping entry i's title
\* and starting at its page, the last one ending at T-1; when the pages are
\* strictly increasing and below T, the starts are strictly increasing and
\* the intervals partition [first page, T-1].
C1_RangesPartitionFromFirstPage ==
    (resDone /\ PagesAscending(rawIn)) =>
        /\ Len(resOut) = Len(rawIn)
        /\ \A i \in 1..Len(rawIn) : resOut[i][1] = rawIn[i][1] /\ resOut[i][2] = rawIn[i][2]
        /\ resOut # <<>> => resOut[Len(resOut)][3] = totalIn - 1
        /\ (/\ rawIn # <<>>
            /\ PagesStrictlyAscending(rawIn)
            /\ \A i \in 1..Len(rawIn) : rawIn[i][2] < totalIn)
           => /\ StartsStrictlyIncreasing(resOut)
              /\ Partitions(resOut, rawIn[1][2], totalIn - 1)

C1_Witness ==
    /\ resDone
    /\ totalIn = 3
    /\ rawIn = <<(<<(<<"a">>), 1>>), (<<(<<"b">>), 2>>)>>
    /\ resOut = <<(<<(<<"a">>), 1, 1>>), (<<(<<"b">>), 2, 2>>)>>

\* C2 as stated: every range satisfies 0 <= start <= end < total_pages,
\* whatever the entries.
C2_Original ==
    resDone =>
        \A i \in 1..Len(resOut) :
            0 <= resOut[i][2] /\ resOut[i][2] <= resOut[i][3] /\ resOut[i][3] < totalIn

PagesDistinctAndInside(raw, total) ==
    /\ \A i, j \in 1..Len(raw) : i # j => raw[i][2] # raw[j][2]
    /\ \A i \in 1..Len(raw) : raw[i][2] < total

\* C2, amended: every range has 0 <= start; when the entries' pages are
\* pairwise distinct and all below total_pages, in whatever order they come,
\* every range also has start <= end < total_pages.
C2_RangeBoundsForDistinctPages ==
    resDone =>
        /\ \A i \in 1..Len(resOut) : 0 <= resOut[i][2]
        /\ PagesDistinctAndInside(rawIn, totalIn) =>
               \A i \in 1..Len(resOut) :
                   resOut[i][2] <= resOut[i][3] /\ resOut[i][3] < totalIn

C2_Witness ==
    /\ resDone
    /\ Len(rawIn) = 3
    /\ ~PagesAscending(rawIn)
    /\ PagesDistinctAndInside(rawIn, totalIn)
    /\ \A i \in 1..Len(resOut) : resOut[i][2] <= resOut[i][3] /\ resOut[i][3] < totalIn

----------------------------------------------------------------------------
(* Properties of write_chapters and on_split (Spec) *)

\* The effective selection of a recorded call, and the range at position n.
SelOf(c) == IF c.given THEN c.idx ELSE [i \in 1..Len(c.ranges) |-> i - 1]

RangeAt(c, n) == c.ranges[SelOf(c)[n] + 1]

PdfSuffix == <<".", "p", "d", "f">>

ExpectedName(n, title) == Fmt02d(n) \o <<"_">> \o sanitize_filename(title) \o PdfSuffix

ExpectedPages(start, end) ==
    IF start <= end THEN [i \in 1..(end - start + 1) |-> start + i - 1] ELSE <<>>

\* The range needs a page the document does not have.
Overruns(r, total) == r[2] <= r[3] /\ r[3] >= total

\* Start and end both lie in [0, total-1].
InBounds(r, total) == 0 <= r[2] /\ r[2] < total /\ 0 <= r[3] /\ r[3] < total

\* The position of the first selected range that overruns, or one past the
\* selection when none does.
FirstOverrun(c, total) ==
    LET bad == {n \in 1..Len(SelOf(c)) : Overruns(RangeAt(c, n), total)}
    IN  IF bad = {} THEN Len(SelOf(c)) + 1
        ELSE CHOOSE n \in bad : \A m \in bad : n <= m

\* C3 as stated: a call never aborts on a range outside [0, total-1]; every
\* selected range inside [0, total-1] is written.
C3_Original ==
    last.op # "none" =>
        /\ last.outcome = "returned"
        /\ \A n \in 1..Len(SelOf(last)) :
               LET r == RangeAt(last, n)
               IN  InBounds(r, doc.total) =>
                       \E i \in 1..Len(last.log) :
                           /\ last.log[i].title = r[1]
                           /\ last.log[i].pages = ExpectedPages(r[2], r[3])

\* C3, amended: write_chapters raises IndexError at the first selected range
\* that needs a page index >= total_pages; the ranges before it have been
\* written, that range and all later ones are not, and no count is returned.
\* A range with start > end is written as a file without pages.
C3_AbortsAtFirstOverrun ==
    last.op # "none" =>
        LET first == FirstOverrun(last, doc.total)
            names == {ExpectedName(n, RangeAt(last, n)[1]) : n \in 1..(first - 1)}
        IN  /\ last.outcome = IF first <= Len(SelOf(last)) THEN "IndexError" ELSE "returned"
            /\ last.count = first - 1
            /\ Len(last.log) = first - 1
            /\ DOMAIN fs = DOMAIN last.before \cup names
            /\ \A name \in DOMAIN fs \ names : fs[name] = last.before[name]

C3_Witness ==
    /\ last.outcome = "IndexError"
    /\ last.count = 1
    /\ Len(SelOf(last)) = 2
    /\ DOMAIN last.before = {}
    /\ Cardinality(DOMAIN fs) = 1

NoUsableEntry(d) ==
    \A i \in 1..Len(d.outline) :
        d.outline[i].title = <<>> \/ d.outline[i].page = Unresolvable

C5_CountIsSelectionLength ==
    (last.op # "none" /\ last.outcome = "returned") =>
        last.count = IF last.given THEN Len(last.idx) ELSE Len(last.ranges)

C5_Witness ==
    /\ last.outcome = "returned"
    /\ last.given
    /\ last.idx = <<>>
    /\ Len(last.ranges) = 2
    /\ last.count = 0

\* C6: the file written at output position n is "<n, 2 digits>_<sanitized
\* title>.pdf" of the range at position n of the effective list, and holds
\* exactly the pages start..end of that range in ascending order.
C6_FileAtPosition ==
    last.op # "none" =>
        \A n \in 1..last.count :
            LET r    == RangeAt(last, n)
                name == ExpectedName(n, r[1])
            IN  /\ name \in DOMAIN fs
                /\ fs[name] = ExpectedPages(r[2], r[3])
                /\ last.log[n].fname = name

C6_Witness ==
    /\ last.outcome = "returned"
    /\ last.idx = <<1, 0>>
    /\ doc.total = 2
    /\ last.ranges = <<(<<(<<"a">>), 0, 0>>), (<<(<<"a", ":">>), 1, 1>>)>>
    /\ fs = (<<"0", "1", "_", "a", "_", ".", "p", "d", "f">> :> <<1>>)
            @@ (<<"0", "2", "_", "a", ".", "p", "d", "f">> :> <<0>>)

TitlePages(log) == {<<log[i].title, log[i].pages>> : i \in 1..Len(log)}

\* Two consecutive runs over all chapters, one in each output order.
OppositeSplits ==
    /\ prev.op # "none"
    /\ ~prev.given
    /\ ~last.given
    /\ prev.order # last.order

SameInputs ==
    /\ prev.op # "none"
    /\ last.ranges = prev.ranges
    /\ last.given = prev.given
    /\ last.idx = prev.idx

\* C8: a second write_chapters run with the same ranges, document, selection
\* and directory ends as the first did, with the same count, and leaves the
\* directory as the first run left it.
C8_SecondRunChangesNothing ==
    SameInputs =>
        /\ last.outcome = prev.outcome
        /\ last.count = prev.count
        /\ last.log = prev.log
        /\ fs = last.before

C8_Witness ==
    /\ SameInputs
    /\ last.outcome = "returned"
    /\ last.count = 2
    /\ \E name \in DOMAIN fs : Len(fs[name]) = 2

\* C10: the filenames one call emits are pairwise distinct, so a call into
\* an empty directory that returns c leaves exactly c files; and a call
\* removes no file that was in the directory before it.
C10_DistinctNamesNoRemoval ==
    last.op # "none" =>
        /\ \A i, j \in 1..Len(last.log) : i # j => last.log[i].fname # last.log[j].fname
        /\ (last.outcome = "returned" /\ DOMAIN last.before = {})
               => Cardinality(DOMAIN fs) = last.count
        /\ DOMAIN last.before \subseteq DOMAIN fs

C10_Witness ==
    /\ last.outcome = "returned"
    /\ last.count = 2
    /\ DOMAIN last.before = {}
    /\ sanitize_filename(last.log[1].title) = sanitize_filename(last.log[2].title)
    /\ last.log[1].title # last.log[2].title
    /\ Cardinality(DOMAIN fs) = 2

====
